---- MODULE Spec2Model ----
(***************************************************************************)
(* Model of the noise-sensor firmware in src/src/main.rs: the shared       *)
(* AtomicU8 status cell, the indicator thread (report_status) and the      *)
(* sampler thread (read_noise_level, with connect_to_wifi), as spawned by  *)
(* main inside thread::scope.                                              *)
(*                                                                         *)
(* Two systems are specified over the same variables:                      *)
(*   Spec / FairSpec       the program as main wires it;                   *)
(*   Harness / FairHarness report_status alone, run against a writer that  *)
(*                         stores arbitrary bytes in the status cell.      *)
(* A panic is modelled with the semantics of std::thread: it ends the      *)
(* panicking thread only, and thread::scope returns once every spawned     *)
(* thread has ended.                                                       *)
(***************************************************************************)
EXTENDS Integers, Sequences, FiniteSets, TLC

\* ---------------------------------------------------------------- bounds
\* Raw bytes the model lets the status cell hold: 0..MaxRaw (3 and above
\* stand for every byte that is no DeviceStatus).
MaxRaw == 3
\* Number of stores the harness writer performs.
MaxWrites == 3
\* The non-zero reading the ADC can return (besides 0).
MaxSample == 3

\* ------------------------------------------------------------- constants
LEN == 5

RawBytes == 0..MaxRaw

DeviceStatus == {"Ok", "WifiError", "MqttError"}

AsU8_codes(s) ==
  CASE s = "Ok" -> 0
    [] s = "WifiError" -> 10
    [] s = "MqttError" -> 20

\* `status as u8` for the #[repr(u8)] enum
AsU8(s) ==
  CASE s = "Ok" -> 0
    [] s = "WifiError" -> 1
    [] s = "MqttError" -> 2

try_from_default(value) ==
  CASE value = 0 -> [ok |-> TRUE, val |-> "Ok"]
    [] value = 1 -> [ok |-> TRUE, val |-> "WifiError"]
    [] value = 2 -> [ok |-> TRUE, val |-> "MqttError"]
    [] OTHER -> [ok |-> TRUE, val |-> "Ok"]

try_from_swapped(value) ==
  CASE value = 0 -> [ok |-> TRUE, val |-> "Ok"]
    [] value = 1 -> [ok |-> TRUE, val |-> "MqttError"]
    [] value = 2 -> [ok |-> TRUE, val |-> "WifiError"]
    [] OTHER -> [ok |-> FALSE, err |-> "Unknown status"]

\* impl TryFrom<u8> for DeviceStatus
try_from(value) ==
  CASE value = 0 -> [ok |-> TRUE, val |-> "Ok"]
    [] value = 1 -> [ok |-> TRUE, val |-> "WifiError"]
    [] value = 2 -> [ok |-> TRUE, val |-> "MqttError"]
    [] OTHER -> [ok |-> FALSE, err |-> "Unknown status"]

ColorStep_new(red, green, blue, duration) ==
  [red |-> red, green |-> green, blue |-> blue, duration |-> duration]

light_sequence(s) ==
  CASE s = "Ok" -> <<ColorStep_new(0, 255, 0, 500), ColorStep_new(0, 0, 0, 500)>>
    [] s = "WifiError" -> <<ColorStep_new(255, 0, 0, 200), ColorStep_new(0, 0, 0, 100)>>
    [] s = "MqttError" -> <<ColorStep_new(255, 0, 255, 100), ColorStep_new(0, 0, 0, 300)>>

\* LedPixelColorGrb24::new_with_rgb: the bytes sent to the pixel, in G,R,B order
new_with_rgb(r, g, b) == <<g, r, b>>

\* The status whose sequence a step belongs to (the six steps are distinct).
PatternOf(step) ==
  CHOOSE s \in DeviceStatus :
    \E k \in 1..Len(light_sequence(s)) : light_sequence(s)[k] = step

\* The fallible operations of connect_to_wifi, in program order.
NetOps ==
  << "EspSystemEventLoop::take", "EspDefaultNvsPartition::take", "EspWifi::new",
     "BlockingWifi::wrap", "set_configuration", "start", "connect",
     "wait_netif_up", "get_ip_info" >>

connect_to_wifi_nocheck(ssid, passwd, failAt) ==
  IF failAt = 0
    THEN [ok |-> TRUE, ops |-> NetOps,
          auth |-> IF passwd = "" THEN "None" ELSE "WPA2Personal"]
    ELSE [ok |-> FALSE, ops |-> SubSeq(NetOps, 1, failAt),
          auth |-> IF passwd = "" THEN "None" ELSE "WPA2Personal"]

\* connect_to_wifi: failAt = 0 when every operation succeeds, else the index
\* (in NetOps) of the operation that returns Err and is propagated by `?`.
connect_to_wifi(ssid, passwd, failAt) ==
  IF ssid = ""
    THEN [ok |-> FALSE, ops |-> <<>>, auth |-> "unset"]
    ELSE IF failAt = 0
      THEN [ok |-> TRUE, ops |-> NetOps,
            auth |-> IF passwd = "" THEN "None" ELSE "WPA2Personal"]
      ELSE [ok |-> FALSE, ops |-> SubSeq(NetOps, 1, failAt),
            auth |-> IF passwd = "" THEN "None" ELSE "WPA2Personal"]

\* const TOPIC
TOPIC == "home/noise sensor/01"

\* f32 values are kept by class: "neg_inf", "neg", "zero", "pos", "pos_inf",
\* "nan"; a finite positive value also records how it compares with 1.0
\* ("lt", "eq", "gt"), which decides the sign of its logarithm.
F32(cls, one) == [cls |-> cls, one |-> one]

\* sum / LEN as f32, for the non-negative integral sum and the count n > 0
f32_div(x, n) ==
  IF x = 0 THEN F32("zero", "lt")
  ELSE F32("pos", IF x < n THEN "lt" ELSE IF x = n THEN "eq" ELSE "gt")

\* x / x: 0.0 / 0.0 is NaN
f32_div_self(x) ==
  IF x = 0 THEN F32("nan", "lt") ELSE F32("pos", "eq")

\* f32::sqrt
f32_sqrt(v) ==
  CASE v.cls \in {"zero", "pos", "pos_inf", "nan"} -> v
    [] OTHER -> F32("nan", "lt")

\* f32::log10
f32_log10(v) ==
  CASE v.cls = "zero" -> F32("neg_inf", "lt")
    [] v.cls = "pos" /\ v.one = "lt" -> F32("neg", "lt")
    [] v.cls = "pos" /\ v.one = "eq" -> F32("zero", "lt")
    [] v.cls = "pos" /\ v.one = "gt" -> F32("pos", "gt")
    [] v.cls = "pos_inf" -> v
    [] OTHER -> F32("nan", "lt")

\* 20.0f32 * v: the class of v is kept (the magnitude is not tracked further)
f32_mul20(v) == F32(v.cls, "gt")

d_b_relative(s) == f32_mul20(f32_log10(f32_sqrt(f32_div_self(s))))

\* let d_b = 20.0f32 * (sum / LEN as f32).sqrt().log10();
d_b(s) == f32_mul20(f32_log10(f32_sqrt(f32_div(s, LEN))))

\* format!("{}", d_b): the non-finite values print as below; a finite value
\* prints as a decimal numeral, of which the model keeps the sign
format(v) ==
  CASE v.cls = "neg_inf" -> "-inf"
    [] v.cls = "pos_inf" -> "inf"
    [] v.cls = "nan" -> "NaN"
    [] v.cls = "zero" -> "0"
    [] v.cls = "neg" -> "-<decimal>"
    [] v.cls = "pos" -> "<decimal>"

\* ------------------------------------------------------------------ state
VARIABLES
  status,         \* the AtomicU8 shared by both threads (raw byte)
  main_pc,        \* "scope": main blocked in thread::scope; "exited"
  ipc,            \* indicator thread: "new", "load", "write", "sleep", "dead"
  prev_status,    \* report_status: prev_status
  sequence,       \* report_status: sequence
  idx,            \* position of sequence.iter() (1-based; next step to write)
  led,            \* bytes last written to the neopixel (<<>> before any write)
  spc,            \* sampler thread: "adc_new", "adc_channel", "connect",
                  \*   "mqtt_new", "sleep", "read", "publish", "dead", "none"
  wifi_ssid,      \* CONFIGURATION.wifi_ssid
  wifi_password,  \* CONFIGURATION.wifi_password
  wifi,           \* _wifi: "unset" before the attempt, then "Some" or "None"
  netops,         \* operations connect_to_wifi performed
  i,              \* loop index of `for i in 0..LEN`
  sum,            \* sum
  sample_buffer,  \* sample_buffer
  last_pub,       \* outcome of the latest publish: "none", "Ok", "Err"
  sent,           \* <<topic, payload>> handed to the latest publish (<<>>: none)
  seen,           \* raw byte returned by the latest status.load (-1: none yet)
  pass,           \* steps written to the LED since the latest status.load
  shown,          \* patterns the LED has shown, in order, without repeats
  read_other,     \* a status.load has returned a valid status other than the
                  \*   initial prev_status
  written,        \* bytes the harness writer has stored, in order
  patient         \* harness: every store but the first was made when the
                  \*   value it replaced had been Held

indicatorVars == <<ipc, prev_status, sequence, idx, led, seen, pass, shown,
                   read_other>>
samplerVars == <<spc, wifi, netops, i, sum, sample_buffer, last_pub, sent>>
configVars == <<wifi_ssid, wifi_password>>
harnessVars == <<written, patient>>
vars == <<status, main_pc, indicatorVars, samplerVars, configVars, harnessVars>>

\* The indicator is between two passes and the value now in the cell is the
\* one its latest check read: the value has been there over a check and the
\* whole pass that followed it.
Held == ipc = "load" /\ seen = status

Ssids == {"", "NotMyWifi"}
Passwords == {"", "NotMyPassword"}

IndicatorInit ==
  /\ ipc = "new"
  /\ prev_status = "WifiError"
  /\ sequence = <<>>
  /\ idx = 1
  /\ led = <<>>
  /\ seen = -1
  /\ pass = <<>>
  /\ shown = <<>>
  /\ read_other = FALSE

Init ==
  /\ status = 0
  /\ main_pc = "scope"
  /\ IndicatorInit
  /\ spc = "adc_new"
  /\ wifi_ssid \in Ssids
  /\ wifi_password \in Passwords
  /\ wifi = "unset"
  /\ netops = <<>>
  /\ i = 0
  /\ sum = 0
  /\ sample_buffer = [k \in 1..LEN |-> 0]
  /\ last_pub = "none"
  /\ sent = <<>>
  /\ written = <<>>
  /\ patient = TRUE

\* ------------------------------------------------- indicator: report_status
\* Ws2812Esp32RmtDriver::new(..).expect("Unable to talk to ws2812")
NeopixelNew ==
  /\ ipc = "new"
  /\ ipc' \in {"load", "dead"}
  /\ UNCHANGED <<status, main_pc, prev_status, sequence, idx, led, seen, pass,
                 shown, read_other, samplerVars, configVars, harnessVars>>

CheckCompareAfter ==
  /\ ipc = "load"
  /\ seen' = status
  /\ pass' = <<>>
  /\ LET r == try_from(status) IN
       /\ read_other' = (read_other \/ (r.ok /\ r.val # "WifiError"))
       /\ IF r.ok
            THEN /\ prev_status' = r.val
                 /\ sequence' = sequence
                 /\ idx' = 1
                 /\ ipc' = IF sequence' = <<>> THEN "load" ELSE "write"
            ELSE /\ UNCHANGED <<prev_status, sequence, idx>>
                 /\ ipc' = "load"
  /\ UNCHANGED <<status, main_pc, led, shown, samplerVars, configVars, harnessVars>>

\* One pass through the head of the loop: status.load(Relaxed), try_from,
\* the comparison with prev_status and the start of `for step in sequence.iter()`.
Check ==
  /\ ipc = "load"
  /\ seen' = status
  /\ pass' = <<>>
  /\ LET r == try_from(status) IN
       /\ read_other' = (read_other \/ (r.ok /\ r.val # "WifiError"))
       /\ IF r.ok
            THEN /\ prev_status' = r.val
                 /\ sequence' = IF r.val # prev_status THEN light_sequence(r.val)
                                                       ELSE sequence
                 /\ idx' = 1
                 /\ ipc' = IF sequence' = <<>> THEN "load" ELSE "write"
            ELSE /\ UNCHANGED <<prev_status, sequence, idx>>
                 /\ ipc' = "load"
  /\ UNCHANGED <<status, main_pc, led, shown, samplerVars, configVars, harnessVars>>

\* neopixel.write_blocking(..) returned Ok: the step's colour is on the LED
write_blocking_Ok ==
  /\ ipc = "write"
  /\ LET step == sequence[idx] IN
       /\ led' = new_with_rgb(step.red, step.green, step.blue)
       /\ pass' = Append(pass, step)
       /\ shown' = IF shown # <<>> /\ shown[Len(shown)] = PatternOf(step)
                     THEN shown
                     ELSE Append(shown, PatternOf(step))
  /\ ipc' = "sleep"
  /\ UNCHANGED <<status, main_pc, prev_status, sequence, idx, seen, read_other,
                 samplerVars, configVars, harnessVars>>

write_blocking_Err_abort ==
  /\ ipc = "write"
  /\ ipc' = "dead"
  /\ spc' = "dead"
  /\ main_pc' = "exited"
  /\ UNCHANGED <<status, prev_status, sequence, idx, led, seen, pass, shown,
                 read_other, wifi, netops, i, sum, sample_buffer, last_pub, sent,
                 configVars, harnessVars>>

\* neopixel.write_blocking(..) returned Err: .expect("Error writing to neopixel")
\* panics, which ends the indicator thread
write_blocking_Err ==
  /\ ipc = "write"
  /\ ipc' = "dead"
  /\ UNCHANGED <<status, main_pc, prev_status, sequence, idx, led, seen, pass,
                 shown, read_other, samplerVars, configVars, harnessVars>>

WakeRecheck ==
  /\ ipc = "sleep"
  /\ idx' = 1
  /\ ipc' = "load"
  /\ UNCHANGED <<status, main_pc, prev_status, sequence, led, seen, pass,
                 shown, read_other, samplerVars, configVars, harnessVars>>

\* thread::sleep(step.duration) returns; the iterator advances, and the loop
\* goes back to status.load after the last step
Wake ==
  /\ ipc = "sleep"
  /\ idx' = IF idx + 1 > Len(sequence) THEN 1 ELSE idx + 1
  /\ ipc' = IF idx + 1 > Len(sequence) THEN "load" ELSE "write"
  /\ UNCHANGED <<status, main_pc, prev_status, sequence, led, seen, pass,
                 shown, read_other, samplerVars, configVars, harnessVars>>

report_status ==
  \/ NeopixelNew
  \/ Check
  \/ write_blocking_Ok
  \/ write_blocking_Err
  \/ Wake

\* ------------------------------------------------ sampler: read_noise_level
\* AdcDriver::new(..).expect("Unable to initialze ADC1")
AdcNew ==
  /\ spc = "adc_new"
  /\ spc' \in {"adc_channel", "dead"}
  /\ UNCHANGED <<status, main_pc, indicatorVars, wifi, netops, i, sum,
                 sample_buffer, last_pub, sent, configVars, harnessVars>>

\* AdcChannelDriver::new(..).expect("Unable to access ADC1 channel 0")
AdcChannelNew ==
  /\ spc = "adc_channel"
  /\ spc' \in {"connect", "dead"}
  /\ UNCHANGED <<status, main_pc, indicatorVars, wifi, netops, i, sum,
                 sample_buffer, last_pub, sent, configVars, harnessVars>>

ConnectRetry ==
  /\ spc = "connect"
  /\ \E failAt \in 0..Len(NetOps) :
       LET r == connect_to_wifi(wifi_ssid, wifi_password, failAt) IN
         /\ netops' = r.ops
         /\ IF r.ok
              THEN /\ wifi' = "Some"
                   /\ spc' = "mqtt_new"
                   /\ UNCHANGED status
              ELSE /\ wifi' = "None"
                   /\ spc' = "connect"
                   /\ status' = AsU8("WifiError")
  /\ UNCHANGED <<main_pc, indicatorVars, i, sum, sample_buffer, last_pub,
                 sent, configVars, harnessVars>>

\* let _wifi = match connect_to_wifi(..) { Ok(wifi) => Some(wifi),
\*   Err(err) => { status.store(DeviceStatus::WifiError as u8, Relaxed); None } }
Connect ==
  /\ spc = "connect"
  /\ \E failAt \in 0..Len(NetOps) :
       LET r == connect_to_wifi(wifi_ssid, wifi_password, failAt) IN
         /\ netops' = r.ops
         /\ IF r.ok
              THEN /\ wifi' = "Some"
                   /\ UNCHANGED status
              ELSE /\ wifi' = "None"
                   /\ status' = AsU8("WifiError")
  /\ spc' = "mqtt_new"
  /\ UNCHANGED <<main_pc, indicatorVars, i, sum, sample_buffer, last_pub,
                 sent, configVars, harnessVars>>

\* EspMqttClient::new_cb(..).expect("Unable to initialize MQTT client"),
\* then the first `let mut sum = 0.0f32` of the loop
MqttNew ==
  /\ spc = "mqtt_new"
  /\ \/ /\ spc' = "sleep"
        /\ i' = 0
        /\ sum' = 0
     \/ /\ spc' = "dead"
        /\ UNCHANGED <<i, sum>>
  /\ UNCHANGED <<status, main_pc, indicatorVars, wifi, netops, sample_buffer,
                 last_pub, sent, configVars, harnessVars>>

\* thread::sleep(Duration::from_millis(10)) returns
Sleep ==
  /\ spc = "sleep"
  /\ spc' = "read"
  /\ UNCHANGED <<status, main_pc, indicatorVars, wifi, netops, i, sum,
                 sample_buffer, last_pub, sent, configVars, harnessVars>>

\* adc.read(..) returned Ok(sample). The f32 sum is exact for the readings
\* of the model (sums below 2^24).
ReadOk(sample) ==
  /\ spc = "read"
  /\ sample_buffer' = [sample_buffer EXCEPT ![i + 1] = sample]
  /\ sum' = sum + sample * sample
  /\ i' = i + 1
  /\ spc' = IF i + 1 = LEN THEN "publish" ELSE "sleep"
  /\ UNCHANGED <<status, main_pc, indicatorVars, wifi, netops, last_pub,
                 sent, configVars, harnessVars>>

ReadErrBreak ==
  /\ spc = "read"
  /\ sample_buffer' = [sample_buffer EXCEPT ![i + 1] = 0]
  /\ i' = i + 1
  /\ spc' = "publish"
  /\ UNCHANGED <<status, main_pc, indicatorVars, wifi, netops, sum, last_pub,
                 sent, configVars, harnessVars>>

ReadErrStale ==
  /\ spc = "read"
  /\ i' = i + 1
  /\ spc' = IF i + 1 = LEN THEN "publish" ELSE "sleep"
  /\ UNCHANGED <<status, main_pc, indicatorVars, wifi, netops, sum, last_pub,
                 sample_buffer, sent, configVars, harnessVars>>

\* adc.read(..) returned Err
ReadErr ==
  /\ spc = "read"
  /\ sample_buffer' = [sample_buffer EXCEPT ![i + 1] = 0]
  /\ i' = i + 1
  /\ spc' = IF i + 1 = LEN THEN "publish" ELSE "sleep"
  /\ UNCHANGED <<status, main_pc, indicatorVars, wifi, netops, sum, last_pub,
                 sent, configVars, harnessVars>>

Read ==
  \/ \E sample \in {0, MaxSample} : ReadOk(sample)
  \/ ReadErr

PublishExpect(result) ==
  /\ spc = "publish"
  /\ last_pub' = result
  /\ sent' = <<TOPIC, format(d_b(sum))>>
  /\ IF result = "Ok"
       THEN /\ spc' = "sleep"
            /\ i' = 0
            /\ sum' = 0
       ELSE /\ spc' = "dead"
            /\ UNCHANGED <<i, sum>>
  /\ UNCHANGED <<status, main_pc, indicatorVars, wifi, netops, sample_buffer,
                 configVars, harnessVars>>

PublishSetsFault(result) ==
  /\ spc = "publish"
  /\ last_pub' = result
  /\ sent' = <<TOPIC, format(d_b(sum))>>
  /\ status' = IF result = "Err" THEN AsU8("MqttError") ELSE status
  /\ spc' = "sleep"
  /\ i' = 0
  /\ sum' = 0
  /\ UNCHANGED <<main_pc, indicatorVars, wifi, netops, sample_buffer,
                 configVars, harnessVars>>

\* mqtt_client.publish(..) returned `result`; either branch only prints, and
\* the loop starts over with `let mut sum = 0.0f32`
Publish(result) ==
  /\ spc = "publish"
  /\ last_pub' = result
  /\ sent' = <<TOPIC, format(d_b(sum))>>
  /\ spc' = "sleep"
  /\ i' = 0
  /\ sum' = 0
  /\ UNCHANGED <<status, main_pc, indicatorVars, wifi, netops, sample_buffer,
                 configVars, harnessVars>>

read_noise_level ==
  \/ AdcNew
  \/ AdcChannelNew
  \/ Connect
  \/ MqttNew
  \/ Sleep
  \/ Read
  \/ \E result \in {"Ok", "Err"} : Publish(result)

\* --------------------------------------------------------------------- main
\* thread::scope returns when both spawned threads have ended; both can only
\* end by a panic, which scope then propagates out of main
ScopeExit ==
  /\ main_pc = "scope"
  /\ ipc = "dead"
  /\ spc = "dead"
  /\ main_pc' = "exited"
  /\ UNCHANGED <<status, indicatorVars, samplerVars, configVars, harnessVars>>

Next ==
  \/ report_status
  \/ read_noise_level
  \/ ScopeExit

Spec == Init /\ [][Next]_vars

\* Both threads are scheduled again and again.
FairSpec ==
  /\ Spec
  /\ WF_vars(report_status)
  /\ WF_vars(read_noise_level)

\* ------------------------------------- report_status against a free writer
HarnessInit ==
  /\ status = 0
  /\ main_pc = "scope"
  /\ IndicatorInit
  /\ spc = "none"
  /\ wifi_ssid = "NotMyWifi"
  /\ wifi_password = "NotMyPassword"
  /\ wifi = "unset"
  /\ netops = <<>>
  /\ i = 0
  /\ sum = 0
  /\ sample_buffer = [k \in 1..LEN |-> 0]
  /\ last_pub = "none"
  /\ sent = <<>>
  /\ written = <<>>
  /\ patient = TRUE

\* Some other holder of the &AtomicU8 stores byte b
Store(b) ==
  /\ Len(written) < MaxWrites
  /\ status' = b
  /\ written' = Append(written, b)
  /\ patient' = (patient /\ (written = <<>> \/ Held))
  /\ UNCHANGED <<main_pc, indicatorVars, samplerVars, configVars>>

Writer == \E b \in RawBytes : Store(b)

HarnessNext ==
  \/ report_status
  \/ Writer

Harness == HarnessInit /\ [][HarnessNext]_vars

FairHarness ==
  /\ Harness
  /\ WF_vars(report_status)

\* ================================================================== claims
\* The bytes that encode a DeviceStatus.
ValidBytes == {AsU8(s) : s \in DeviceStatus}

\* The sampler is inside its `loop`.
InLoop == spc \in {"sleep", "read", "publish"}

\* C1 (as claimed): whenever Health State holds a valid status s unchanged
\* from some point on (and the indicator thread is alive), the indicator
\* keeps completing passes whose emitted steps are exactly light_sequence(s).
C1_EventualConsistency ==
  \A s \in DeviceStatus :
    <>[](status = AsU8(s) /\ ipc # "dead")
      => []<>(ipc = "load" /\ pass = light_sequence(s))

\* C2 (as claimed): when a held step ends while Health State holds a valid
\* status different from the applied one, the indicator goes back to reading
\* Health State; it does not go on to write the next step of the old sequence.
C2_CheckEveryStep ==
  [][ (ipc = "sleep" /\ ipc' # "sleep"
        /\ status \in ValidBytes /\ status # AsU8(prev_status))
      => ipc' = "load" ]_vars

\* C3 (as claimed): once ConnectivityFault, Nominal, TelemetryFault have been
\* written in this order, each left in place over a check and a whole pass
\* of the indicator, the LED has shown the ConnectivityFault, Nominal and
\* TelemetryFault patterns in this order (after Nominal's, when the indicator
\* checked before the first write); and the steps of a pass always belong to
\* the status read at the latest check.
C3_EndToEnd ==
  /\ (written = <<AsU8("WifiError"), AsU8("Ok"), AsU8("MqttError")>>
        /\ patient /\ Held)
      => shown \in { <<"WifiError", "Ok", "MqttError">>,
                     <<"Ok", "WifiError", "Ok", "MqttError">> }
  /\ pass # <<>>
      => /\ seen \in ValidBytes
         /\ \A k \in 1..Len(pass) : PatternOf(pass[k]) = try_from(seen).val

\* C4: a check that finds a byte outside {0,1,2} in the cell does not end
\* the indicator thread and leaves prev_status and sequence as they were.
C4_DecodeErrorNoUpdate ==
  [][ (ipc = "load" /\ status \notin ValidBytes)
      => (ipc' = "load" /\ prev_status' = prev_status /\ sequence' = sequence) ]_vars

\* C4 witness: an out-of-range byte has been read while the TelemetryFault
\* sequence was active, and that sequence is still the active one.
C4_Witness ==
  /\ seen >= 0
  /\ seen \notin ValidBytes
  /\ ipc = "load"
  /\ prev_status = "MqttError"
  /\ sequence = light_sequence("MqttError")

\* C5 (as claimed): when the indicator is back at its check after a check
\* that read an out-of-range byte, it has emitted the whole of the previously
\* active sequence in between (the pattern keeps looping).
C5_KeepsLooping ==
  (ipc = "load" /\ seen >= 0 /\ seen \notin ValidBytes /\ sequence # <<>>)
    => pass = sequence

\* C6 (as claimed): after a failed connect_to_wifi, Health State is
\* ConnectivityFault, the sampler thread never ends, and it keeps reaching
\* the publish at the end of a sampling cycle.
C6_DegradedMode ==
  /\ [](wifi = "None" => (status = AsU8("WifiError") /\ spc # "dead"))
  /\ [](wifi = "None" => <>(spc = "publish"))

C8_PublishFailureSetsFault ==
  last_pub = "Err" => status = AsU8("MqttError")

\* C9: whatever the outcome of a publish, the sampler leaves it for the
\* first sleep of a new cycle with i = 0 and sum = 0, it always does so, and
\* it never leaves its loop.
C9_BestEffort ==
  /\ [][ (spc = "publish" /\ samplerVars' # samplerVars)
          => (spc' = "sleep" /\ i' = 0 /\ sum' = 0) ]_vars
  /\ [][ InLoop => InLoop' ]_vars
  /\ [](spc = "publish" => <>(spc = "sleep" /\ i = 0 /\ sum = 0))

\* C9 witness: a publish has failed and the sampler has since completed the
\* reads of the next cycle, one of them non-zero.
C9_Witness ==
  /\ last_pub = "Err"
  /\ spc = "publish"
  /\ sum = MaxSample * MaxSample

\* C10: the panic of a failed LED write changes nothing of the sampler, of
\* Health State or of main; afterwards the sampler in its loop stays in it
\* and keeps reaching both the publish and the start of the next cycle, and
\* main does not leave thread::scope while the sampler runs.
C10_FaultIsolation ==
  /\ [][ (ipc = "write" /\ ipc' = "dead")
          => (samplerVars' = samplerVars /\ status' = status /\ main_pc' = main_pc) ]_vars
  /\ [](spc # "dead" => main_pc = "scope")
  /\ []((ipc = "dead" /\ seen >= 0 /\ InLoop) => <>(spc = "publish"))
  /\ []((ipc = "dead" /\ seen >= 0 /\ InLoop) => <>(spc = "sleep" /\ i = 0))

\* C10 witness: the indicator thread has ended on an LED write (it had
\* checked Health State before) and the sampler has published and sampled on.
C10_Witness ==
  /\ ipc = "dead"
  /\ seen >= 0
  /\ last_pub # "none"
  /\ spc = "publish"
  /\ main_pc = "scope"

\* A step in which the sampler returns from mqtt_client.publish.
PublishStep == spc = "publish" /\ spc' # "publish"

\* A step in which the sampler returns from adc.read.
ReadStep == spc = "read" /\ spc' # "read"

\* C11: in the sampler's loop a read is made only after a sleep and only
\* while fewer than LEN reads of the cycle are done, each read counts one,
\* the publish is made exactly when LEN reads are done, hands over the fixed
\* topic and starts the count of the next cycle at 0; whether a read failed
\* makes no difference.
C11_CycleStructure ==
  /\ [](InLoop => (i \in 0..LEN /\ (spc = "publish" <=> i = LEN)))
  /\ [][ (spc' = "read" /\ spc # "read") => (spc = "sleep" /\ i' = i) ]_vars
  /\ [][ ReadStep => (i < LEN /\ i' = i + 1 /\ sent' = sent /\ last_pub' = last_pub) ]_vars
  /\ [][ PublishStep => (i = LEN /\ i' = 0 /\ Len(sent') = 2 /\ sent'[1] = TOPIC) ]_vars
  /\ [][ (sent' # sent \/ last_pub' # last_pub) => PublishStep ]_vars

\* C11 witness: a second cycle has reached its publish with failed (zero)
\* reads at its start and at its end.
C11_Witness ==
  /\ spc = "publish"
  /\ i = LEN
  /\ last_pub # "none"
  /\ sample_buffer[1] = 0
  /\ sample_buffer[3] = MaxSample
  /\ sample_buffer[LEN] = 0

RECURSIVE SumSq(_, _)
\* Sum of the squares of the first n entries of the window.
SumSq(buf, n) == IF n = 0 THEN 0 ELSE SumSq(buf, n - 1) + buf[n] * buf[n]

\* C12: in the loop, sum is the sum of the squares of the entries the current
\* cycle has put in the window (so, at the publish, of the whole window and
\* of nothing older); a read that adds nothing to sum records 0 in the
\* window, and every read, failed or not, leads on to the next sleep or to
\* the publish.
C12_ReplaceWithZero ==
  /\ [](InLoop => sum = SumSq(sample_buffer, i))
  /\ [][ (ReadStep /\ sum' = sum) => sample_buffer'[i + 1] = 0 ]_vars
  /\ [][ ReadStep => (spc' = (IF i + 1 = LEN THEN "publish" ELSE "sleep")) ]_vars

\* C12 witness: a cycle that follows a window of non-zero readings is at its
\* publish with one zero entry among non-zero ones.
C12_Witness ==
  /\ spc = "publish"
  /\ last_pub # "none"
  /\ sample_buffer = [k \in 1..LEN |-> IF k = 2 THEN 0 ELSE MaxSample]
  /\ sum = (LEN - 1) * MaxSample * MaxSample

\* C13: the connectivity attempt is over before the sampler is in its loop,
\* it is made in one step of the sampler (from "connect" on to the MQTT
\* client), its outcome and the operations it performed never change
\* afterwards, and Health State changes only in that step, when it fails.
C13_ConnectOnce ==
  /\ [](InLoop => wifi # "unset")
  /\ [][ (wifi' # wifi \/ netops' # netops)
          => (wifi = "unset" /\ spc = "connect" /\ spc' = "mqtt_new") ]_vars
  /\ [][ wifi # "unset" => (wifi' = wifi /\ netops' = netops /\ spc' # "connect") ]_vars
  /\ [][ status' # status => (wifi = "unset" /\ wifi' = "None") ]_vars

\* C13 witness: the attempt failed part-way, and the sampler has published
\* and completed another cycle since.
C13_Witness ==
  /\ wifi = "None"
  /\ netops # <<>>
  /\ last_pub # "none"
  /\ spc = "publish"

\* C14 (as claimed): after a failed connectivity attempt nothing is ever
\* handed to the MQTT client.
C14_NoNetworkPublish ==
  wifi = "None" => (last_pub = "none" /\ sent = <<>>)

\* C15: Health State is 0 until the connectivity attempt is over, and always
\* one of the bytes 0, 1, 2.
C15_StatusDomain ==
  /\ status \in {0, 1, 2}
  /\ wifi = "unset" => status = 0

\* C15 witness: Health State has been written and a publish has failed since.
C15_Witness ==
  /\ status = 1
  /\ wifi = "None"
  /\ last_pub = "Err"

\* C16: every variant has a non-empty light sequence; the byte now in the
\* cell decodes exactly when it is 0, 1 or 2, and then to the variant whose
\* `as u8` is that byte; and what the indicator holds after reading such a
\* byte is that variant.
C16_TableTotality ==
  /\ \A v \in DeviceStatus : Len(light_sequence(v)) > 0
  /\ LET r == try_from(status) IN
       IF status \in {0, 1, 2}
         THEN r.ok /\ r.val \in DeviceStatus /\ AsU8(r.val) = status
         ELSE ~r.ok
  /\ seen \in {0, 1, 2} => AsU8(prev_status) = seen

\* C16 witness: the indicator has decoded byte 2 and played the TelemetryFault
\* sequence, and the cell now holds a byte that is no status.
C16_Witness ==
  /\ seen = 2
  /\ prev_status = "MqttError"
  /\ pass = light_sequence("MqttError")
  /\ status \notin {0, 1, 2}

C18_FaultLatching ==
  /\ [][ InLoop => status' = status ]_vars
  /\ [][ status' # status => (status = 0 /\ status' = 1) ]_vars
  /\ [](status # 2)

\* C18 witness: in the loop, after a failed connect and a failed publish.
C18_Witness ==
  /\ InLoop
  /\ status = 1
  /\ last_pub = "Err"

\* C19: during a pass the indicator does not read Health State and keeps its
\* sequence, the steps emitted so far are the first steps of the sequence in
\* order, and when it is back at its check after a successful read it has
\* emitted the whole sequence, each step once.
C19_WholePass ==
  /\ []((ipc = "load" /\ seen \in ValidBytes) => pass = sequence)
  /\ [](ipc \in {"write", "sleep"}
          => /\ Len(pass) = (IF ipc = "write" THEN idx - 1 ELSE idx)
             /\ Len(pass) <= Len(sequence)
             /\ pass = SubSeq(sequence, 1, Len(pass)))
  /\ [][ (ipc \in {"write", "sleep"})
          => (seen' = seen /\ prev_status' = prev_status /\ sequence' = sequence) ]_vars

\* C19 witness: Health State has changed to another valid status since the
\* check, and the indicator is about to write the second step of the old
\* sequence.
C19_Witness ==
  /\ ipc = "write"
  /\ idx = 2
  /\ seen \in ValidBytes
  /\ status \in ValidBytes
  /\ status # seen
  /\ sequence = light_sequence(try_from(seen).val)

\* C20: the active sequence is empty or light_sequence(prev_status); it is
\* empty exactly as long as no valid status other than WifiError has been
\* read, and then prev_status is still WifiError and nothing has been
\* written to the LED.
C20_LocalState ==
  /\ sequence = <<>> \/ sequence = light_sequence(prev_status)
  /\ sequence = <<>> <=> ~read_other
  /\ sequence = <<>>
       => (prev_status = "WifiError" /\ led = <<>> /\ shown = <<>> /\ pass = <<>>)

\* C20 witness: the indicator has read ConnectivityFault, its sequence is
\* still empty, and the writer has stored more than once.
C20_Witness ==
  /\ seen = AsU8("WifiError")
  /\ sequence = <<>>
  /\ ipc = "load"
  /\ Len(written) > 1

====
